---- MODULE Spec2Model ----
(***************************************************************************)
(* Model of the magenta-js conversion layer:                               *)
(*   core/midi_io.ts      midiToSequenceProto, sequenceProtoToMidi         *)
(*   coconet_utils        pianorollToSequence, sequenceToPianoroll,        *)
(*                        flatArrayToPianoroll                             *)
(*   music_vae/midi_me.ts the life cycle of a MidiMe instance's models     *)
(*                                                                         *)
(* Encoding of JavaScript values:                                          *)
(*   - an optional value is a sequence of length 0 (undefined) or 1;       *)
(*   - an array is a sequence; array index i is sequence index i + 1;      *)
(*   - times (seconds) are integers, so time + duration is exact;          *)
(*   - a normalized velocity (a float) is a fraction [num, den]; every     *)
(*     fraction the model builds has a floor under *128 that IEEE doubles  *)
(*     compute exactly (den = 128 is a power of two).                      *)
(***************************************************************************)
EXTENDS Integers, Sequences, FiniteSets

VARIABLES
  ns,          \* the caller's NoteSequence object handed to sequenceProtoToMidi
  midiOut,     \* outcome of the last sequenceProtoToMidi(ns) call
  parsedMidi,  \* what midiconvert.parse returns for the MIDI data to import
  nsOut,       \* outcome of the last midiToSequenceProto call on parsedMidi
  rollIn,      \* arguments (ns, numberOfSteps) of sequenceToPianoroll
  pianoroll,   \* a pianoroll: outcome of sequenceToPianoroll, or a given tensor
  sequence,    \* outcome of the last pianorollToSequence(pianoroll) call
  flatIn,      \* arguments (flatArray, numberOfSteps) of flatArrayToPianoroll
  reshaped,    \* outcome of the last flatArrayToPianoroll call
  midiMe,      \* the fields of a MidiMe instance
  trainCall,   \* where the instance's train call stands, and its loop counter e
  awaiting,    \* the sample, decode or encode call suspended at its await
  lastUse      \* the last use a call made of one of the instance's models

vars == <<ns, midiOut, parsedMidi, nsOut, rollIn, pianoroll, sequence,
          flatIn, reshaped, midiMe, trainCall, awaiting, lastUse>>

midiVars == <<ns, midiOut, parsedMidi, nsOut>>

rollVars == <<rollIn, pianoroll, sequence>>

flatVars == <<flatIn, reshaped>>

meVars == <<midiMe, trainCall, awaiting, lastUse>>

(***************************************************************************)
(* JavaScript values                                                       *)
(***************************************************************************)
Undefined == <<>>

Some(v) == <<v>>

Get(o) == o[1]

isNullOrUndefined(o) == o = Undefined

Min(a, b) == IF a < b THEN a ELSE b

(***************************************************************************)
(* core/constants.ts                                                       *)
(***************************************************************************)
MIDI_VELOCITIES == 128

DEFAULT_QUARTERS_PER_MINUTE == 120

DEFAULT_TICKS_PER_QUARTER == 220

DEFAULT_VELOCITY == 80

DEFAULT_PROGRAM == 0

DEFAULT_CHANNEL == 0

DRUM_CHANNEL == 9

(***************************************************************************)
(* midiToSequenceProto                                                     *)
(***************************************************************************)
\* Math.floor(x * n) for the float x = num / den, x >= 0.
FloorTimes(x, n) == (x.num * n) \div x.den

\* NoteSequence.create(): the protobuf defaults.
NoteSequenceCreate ==
  [ticksPerQuarter |-> 0, timeSignatures |-> <<>>, tempos |-> <<>>,
   notes |-> <<>>, totalTime |-> 0]

ImportTimeSignature(header) ==
  IF header.timeSignature # Undefined
  THEN [time |-> 0,
        numerator |-> Get(header.timeSignature)[1],
        denominator |-> Get(header.timeSignature)[2]]
  ELSE [time |-> 0, numerator |-> 4, denominator |-> 4]

ImportTempo(header) == [time |-> 0, qpm |-> header.bpm]

NextInstrumentNumberEveryTrack(instrumentNumber, track) == instrumentNumber + 1

\* if (track.notes.length > 0) { instrumentNumber += 1; }
NextInstrumentNumber(instrumentNumber, track) ==
  IF Len(track.notes) > 0 THEN instrumentNumber + 1 ELSE instrumentNumber

ImportNote(note, track, instrumentNumber) ==
  [instrument |-> instrumentNumber,
   program |-> track.instrumentNumber,
   startTime |-> note.time,
   endTime |-> note.time + note.duration,
   pitch |-> note.midi,
   velocity |-> FloorTimes(note.velocity, MIDI_VELOCITIES),
   isDrum |-> track.isPercussion]

TotalTimeLastNote(totalTime, endTime) == endTime

\* if (endTime > ns.totalTime) { ns.totalTime = endTime; }
TotalTimeAfter(totalTime, endTime) ==
  IF endTime > totalTime THEN endTime ELSE totalTime

\* The inner loop over track.notes.
RECURSIVE ImportTrackNotes(_, _, _, _)
ImportTrackNotes(notes, track, instrumentNumber, seq) ==
  IF notes = <<>> THEN seq
  ELSE LET n == ImportNote(Head(notes), track, instrumentNumber)
       IN ImportTrackNotes(Tail(notes), track, instrumentNumber,
            [seq EXCEPT !.notes = Append(@, n),
                        !.totalTime = TotalTimeAfter(@, n.endTime)])

\* The outer loop over parsedMidi.tracks.
RECURSIVE ImportTracks(_, _, _)
ImportTracks(tracks, instrumentNumber, seq) ==
  IF tracks = <<>> THEN seq
  ELSE LET track == Head(tracks)
           number == NextInstrumentNumber(instrumentNumber, track)
       IN ImportTracks(Tail(tracks), number,
                       ImportTrackNotes(track.notes, track, number, seq))

midiToSequenceProto(midi) ==
  ImportTracks(midi.tracks, -1,
    [NoteSequenceCreate EXCEPT
       !.ticksPerQuarter = midi.header.PPQ,
       !.timeSignatures = <<ImportTimeSignature(midi.header)>>,
       !.tempos = <<ImportTempo(midi.header)>>])

(***************************************************************************)
(* sequenceProtoToMidi                                                     *)
(***************************************************************************)
DefaultTempos(seq) ==
  IF isNullOrUndefined(seq.tempos) \/ Len(Get(seq.tempos)) = 0
  THEN [seq EXCEPT !.tempos =
          Some(<<[time |-> Some(0), qpm |-> DEFAULT_QUARTERS_PER_MINUTE]>>)]
  ELSE seq

DefaultTimeSignatures(seq) ==
  IF isNullOrUndefined(seq.timeSignatures) \/ Len(Get(seq.timeSignatures)) = 0
  THEN [seq EXCEPT !.timeSignatures =
          Some(<<[time |-> Some(0), numerator |-> 4, denominator |-> 4]>>)]
  ELSE seq

TemposInvalidLengthOnly(tempos) == Len(tempos) # 1

\* ns.tempos.length !== 1 || ns.tempos[0].time !== 0
TemposInvalid(tempos) == Len(tempos) # 1 \/ tempos[1].time # Some(0)

\* ns.timeSignatures.length !== 1 || ns.timeSignatures[0].time !== 0
TimeSignaturesInvalid(timeSignatures) ==
  Len(timeSignatures) # 1 \/ timeSignatures[1].time # Some(0)

ExportHeader(seq) ==
  [bpm |-> Get(seq.tempos)[1].qpm,
   PPQ |-> IF seq.ticksPerQuarter # Undefined /\ Get(seq.ticksPerQuarter) # 0
           THEN Get(seq.ticksPerQuarter) ELSE DEFAULT_TICKS_PER_QUARTER,
   timeSignature |-> Some(<<Get(seq.timeSignatures)[1].numerator,
                            Get(seq.timeSignatures)[1].denominator>>)]

\* note.instrument ? note.instrument : 0
InstrumentOf(note) ==
  IF note.instrument # Undefined /\ Get(note.instrument) # 0
  THEN Get(note.instrument) ELSE 0

\* A Map<number, INote[]>: its entries in insertion order.
MapHas(map, key) == \E i \in DOMAIN map : map[i].key = key

MapGet(map, key) == map[CHOOSE i \in DOMAIN map : map[i].key = key].value

MapSet(map, key, value) ==
  IF MapHas(map, key)
  THEN [i \in DOMAIN map |->
          IF map[i].key = key THEN [key |-> key, value |-> value] ELSE map[i]]
  ELSE Append(map, [key |-> key, value |-> value])

MapKeys(map) == [i \in DOMAIN map |-> map[i].key]

\* One iteration of the grouping loop.
GroupStep(tracks, note) ==
  LET instrument == InstrumentOf(note)
      t1 == IF ~MapHas(tracks, instrument)
            THEN MapSet(tracks, instrument, <<>>) ELSE tracks
  IN MapSet(t1, instrument, Append(MapGet(t1, instrument), note))

RECURSIVE GroupNotes(_, _)
GroupNotes(notes, tracks) ==
  IF notes = <<>> THEN tracks
  ELSE GroupNotes(Tail(notes), GroupStep(tracks, Head(notes)))

\* String(n) for an integer n >= 0: its decimal digits.
RECURSIVE ToString(_)
ToString(n) == IF n < 10 THEN <<n>> ELSE Append(ToString(n \div 10), n % 10)

\* a < b as strings compared by code units (a proper prefix is smaller).
StringLess(a, b) ==
  \E i \in 1..(Min(Len(a), Len(b)) + 1) :
    /\ \A j \in 1..(i - 1) : a[j] = b[j]
    /\ \/ i > Len(a) /\ i <= Len(b)
       \/ i <= Len(a) /\ i <= Len(b) /\ a[i] < b[i]

\* The comparison Array.prototype.sort() makes when given no comparator.
SortBefore(x, y) == StringLess(ToString(x), ToString(y))

\* array.sort() of distinct numbers: the one arrangement ordered by SortBefore.
RECURSIVE ArraySort(_)
ArraySort(array) ==
  IF array = <<>> THEN <<>>
  ELSE LET first == CHOOSE i \in DOMAIN array :
                      \A j \in DOMAIN array : j = i \/ SortBefore(array[i], array[j])
           rest == [j \in 1..(Len(array) - 1) |->
                      IF j < first THEN array[j] ELSE array[j + 1]]
       IN <<array[first]>> \o ArraySort(rest)

ExportNote(note) ==
  LET velocity == IF isNullOrUndefined(note.velocity)
                  THEN DEFAULT_VELOCITY ELSE Get(note.velocity)
  IN [midi |-> note.pitch,
      time |-> note.startTime,
      duration |-> note.endTime - note.startTime,
      velocity |-> [num |-> velocity + 1, den |-> MIDI_VELOCITIES]]

TrackMetaNoteLast(notes) == notes[Len(notes)]

\* The note a track's isPercussion, channelNumber and instrumentNumber come from.
TrackMetaNote(notes) == notes[1]

ExportTrack(i, notes) ==
  LET first == TrackMetaNote(notes)
  IN [id |-> i,
      notes |-> [k \in DOMAIN notes |-> ExportNote(notes[k])],
      isPercussion |-> IF isNullOrUndefined(first.isDrum)
                       THEN FALSE ELSE Get(first.isDrum),
      channelNumber |-> IF first.isDrum = Some(TRUE)
                        THEN DRUM_CHANNEL ELSE DEFAULT_CHANNEL,
      instrumentNumber |-> IF isNullOrUndefined(first.program)
                           THEN DEFAULT_PROGRAM ELSE Get(first.program)]

\* The loop over the sorted instruments; i is the 0-based loop counter.
RECURSIVE ExportTracks(_, _, _, _)
ExportTracks(instruments, tracks, i, out) ==
  IF i >= Len(instruments) THEN [status |-> "ok", tracks |-> out]
  ELSE IF i # instruments[i + 1]
       THEN [status |-> "MidiConversionError", tracks |-> <<>>]
       ELSE ExportTracks(instruments, tracks, i + 1,
                         Append(out, ExportTrack(i, MapGet(tracks, i))))

Threw(message, seq) ==
  [status |-> "MidiConversionError", message |-> message,
   json |-> Undefined, ns |-> seq]

\* The whole call: the outcome, and the caller's object as the call leaves it.
sequenceProtoToMidi(arg) ==
  LET seq == DefaultTimeSignatures(DefaultTempos(arg))
  IN IF TemposInvalid(Get(seq.tempos))
     THEN Threw("NoteSequence must have exactly 1 tempo at time 0", seq)
     ELSE IF TimeSignaturesInvalid(Get(seq.timeSignatures))
     THEN Threw("NoteSequence must have exactly 1 time signature at time 0", seq)
     ELSE LET tracks == GroupNotes(seq.notes, <<>>)
              instruments == ArraySort(MapKeys(tracks))
              built == ExportTracks(instruments, tracks, 0, <<>>)
          IN IF built.status # "ok"
             THEN Threw("Instrument list must be continuous and start at 0", seq)
             ELSE [status |-> "ok", message |-> "",
                   json |-> Some([header |-> ExportHeader(seq),
                                  tracks |-> built.tracks]),
                   ns |-> seq]

(***************************************************************************)
(* coconet_utils: the pianoroll conversions                                *)
(***************************************************************************)
NUM_PITCHES == 46

MIN_PITCH == 36

\* buildEmptyPianoroll: numberOfSteps steps of NUM_PITCHES rows [0, 0, 0, 0].
buildEmptyPianoroll(numberOfSteps) ==
  [stepIndex \in 1..numberOfSteps |-> [pitchIndex \in 1..NUM_PITCHES |-> <<0, 0, 0, 0>>]]

\* Whether array[index] is an element of the array (else it reads undefined).
HasIndex(array, index) == index >= 0 /\ index < Len(array)

SkipInvalidVoice(roll, voice) == [status |-> "ok", value |-> roll]

\* throw new Error(`Found invalid voice ${voice}. Skipping.`)
ThrowInvalidVoice(roll, voice) == [status |-> "Error", value |-> <<>>]

StepLoopInclusive(i, stepIndex, duration) == i <= stepIndex + duration

\* The loop condition i < stepIndex + duration.
StepLoop(i, stepIndex, duration) == i < stepIndex + duration

\* The loop over the steps of one note: pianoroll[i][pitchIndex][voice] = 1.
\* Indexing a row of an undefined pianoroll[i] or pianoroll[i][pitchIndex]
\* throws a TypeError.
RECURSIVE FillSteps(_, _, _, _, _, _)
FillSteps(roll, i, stepIndex, duration, pitchIndex, voice) ==
  IF ~StepLoop(i, stepIndex, duration) THEN [status |-> "ok", value |-> roll]
  ELSE IF ~HasIndex(roll, i) \/ ~HasIndex(roll[i + 1], pitchIndex)
       THEN [status |-> "TypeError", value |-> <<>>]
       ELSE FillSteps([roll EXCEPT ![i + 1][pitchIndex + 1][voice + 1] = 1],
                      i + 1, stepIndex, duration, pitchIndex, voice)

\* The body of notes.forEach.
RollNote(roll, note) ==
  LET pitchIndex == note.pitch - MIN_PITCH
      stepIndex == note.quantizedStartStep
      duration == note.quantizedEndStep - note.quantizedStartStep
      voice == note.instrument
  IN IF voice < 0 \/ voice > 3
     THEN ThrowInvalidVoice(roll, voice)
     ELSE FillSteps(roll, stepIndex, stepIndex, duration, pitchIndex, voice)

RECURSIVE RollNotes(_, _)
RollNotes(notes, roll) ==
  IF notes = <<>> THEN [status |-> "ok", value |-> roll]
  ELSE LET r == RollNote(roll, Head(notes))
       IN IF r.status # "ok" THEN r ELSE RollNotes(Tail(notes), r.value)

sequenceToPianoroll(seq, numberOfSteps) ==
  RollNotes(seq.notes, buildEmptyPianoroll(numberOfSteps))

\* pitch.forEach((value, voiceIndex) => ...): the notes one pitch row pushes,
\* one for each voiceIndex with value === 1.0, in ascending voiceIndex.
ForEachVoice(pitch, pitchIndex, stepIndex) ==
  LET Active(voiceIndex) == pitch[voiceIndex + 1] = 1
      voices == SelectSeq([k \in 1..Len(pitch) |-> k - 1], Active)
  IN [k \in DOMAIN voices |->
        [pitch |-> pitchIndex + MIN_PITCH,
         instrument |-> voices[k],
         quantizedStartStep |-> stepIndex,
         quantizedEndStep |-> stepIndex + 1]]

\* step.forEach((pitch, pitchIndex) => ...): the notes pushed from pitchIndex on.
RECURSIVE ForEachPitch(_, _, _)
ForEachPitch(step, pitchIndex, stepIndex) ==
  IF pitchIndex >= Len(step) THEN <<>>
  ELSE ForEachVoice(step[pitchIndex + 1], pitchIndex, stepIndex)
         \o ForEachPitch(step, pitchIndex + 1, stepIndex)

\* pianoroll.forEach((step, stepIndex) => ...): the notes pushed from stepIndex on.
RECURSIVE ForEachStep(_, _)
ForEachStep(roll, stepIndex) ==
  IF stepIndex >= Len(roll) THEN <<>>
  ELSE ForEachPitch(roll[stepIndex + 1], 0, stepIndex)
         \o ForEachStep(roll, stepIndex + 1)

\* Not the code: totalQuantizedSteps read from the first note pushed.
pianorollToSequenceFirstNote(roll) ==
  LET notes == ForEachStep(roll, 0)
  IN IF Len(notes) = 0
     THEN [status |-> "TypeError", notes |-> <<>>, totalQuantizedSteps |-> 0]
     ELSE [status |-> "ok", notes |-> notes,
           totalQuantizedSteps |-> notes[1].quantizedEndStep]

\* notes[notes.length - 1].quantizedEndStep throws a TypeError on an empty list.
pianorollToSequence(roll) ==
  LET notes == ForEachStep(roll, 0)
  IN IF Len(notes) = 0
     THEN [status |-> "TypeError", notes |-> <<>>, totalQuantizedSteps |-> 0]
     ELSE [status |-> "ok", notes |-> notes,
           totalQuantizedSteps |-> notes[Len(notes)].quantizedEndStep]

\* Array.prototype.slice(start, end) for 0 <= start <= end: the elements at
\* start .. end - 1 that exist; fewer than end - start, or none, past the end.
Slice(array, start, end) ==
  LET stop == Min(end, Len(array))
  IN [k \in 1..(IF stop > start THEN stop - start ELSE 0) |-> array[start + k]]

\* The two loops push one slice of four indices for each step and pitch; no
\* statement of the function throws on an array argument.
flatArrayToPianoroll(flatArray, numberOfSteps) ==
  [status |-> "ok",
   value |-> [stepIndex \in 1..numberOfSteps |-> [pitchIndex \in 1..NUM_PITCHES |->
     LET index == (stepIndex - 1) * NUM_PITCHES * 4 + (pitchIndex - 1) * 4
     IN Slice(flatArray, index, index + 4)]]]

(***************************************************************************)
(* music_vae/midi_me.ts: MidiMe                                            *)
(*                                                                         *)
(* A model field (encoder, decoder, vae) is "undefined" until initialize   *)
(* assigns it, "live" from then on, and "disposed" once dispose() has been *)
(* called on it. Of the configuration only epochs is kept.                 *)
(***************************************************************************)
DEFAULT_EPOCHS == 10

\* constructor(config): epochs: config.epochs || 10; fields trained and
\* initialized start false, the three models are not assigned.
MidiMe(config) ==
  [epochs |-> IF isNullOrUndefined(config.epochs) \/ Get(config.epochs) = 0
              THEN DEFAULT_EPOCHS ELSE Get(config.epochs),
   trained |-> FALSE,
   initialized |-> FALSE,
   encoder |-> "undefined",
   decoder |-> "undefined",
   vae |-> "undefined"]

\* tf.LayersModel.dispose() on the model a field holds.
DisposeModel(model) == "disposed"

dispose(me) ==
  IF ~me.initialized THEN me
  ELSE [me EXCEPT !.encoder = DisposeModel(@), !.decoder = DisposeModel(@),
                  !.vae = DisposeModel(@), !.initialized = FALSE]

initialize(me) ==
  [dispose(me) EXCEPT !.encoder = "live", !.decoder = "live", !.vae = "live",
                      !.initialized = TRUE]

\* A call's this.<model>.predict(...): which model it reaches, and in which state.
Use(me, call, model) == [call |-> call, model |-> model, state |-> me[model]]

NoUse == [call |-> "none", model |-> "none", state |-> "none"]

\* A train call that has not been made.
NoTrainCall == [pc |-> "none", e |-> 0]

MeIdle ==
  /\ midiMe = MidiMe([epochs |-> Undefined])
  /\ trainCall = NoTrainCall
  /\ awaiting = "none"
  /\ lastUse = NoUse

(***************************************************************************)
(* The MIDI adapter (midiconvert), taken as lossless: parsing the bytes    *)
(* that fromJSON(json).toArray() serializes gives json back.               *)
(***************************************************************************)
MidiconvertParse(json) == json

(***************************************************************************)
(* Inputs of the MIDI conversions                                          *)
(***************************************************************************)
MaxNotes == 3

MaxInstrument == 10

MaxTracks == 3

MaxTrackNotes == 2

\* All sequences over S of length 0..n.
SeqsUpTo(S, n) == UNION {[1..k -> S] : k \in 0..n}

\* The elements of a set of integers in ascending order.
RECURSIVE Ascending(_)
Ascending(S) ==
  IF S = {} THEN <<>>
  ELSE LET m == CHOOSE x \in S : \A y \in S : x <= y
       IN <<m>> \o Ascending(S \ {m})

OneTempo == Some(<<[time |-> Some(0), qpm |-> 90]>>)

OneTimeSignature == Some(<<[time |-> Some(0), numerator |-> 3, denominator |-> 8]>>)

Sequence(notes) ==
  [ticksPerQuarter |-> Some(480), tempos |-> OneTempo,
   timeSignatures |-> OneTimeSignature, notes |-> notes]

\* The note at 0-based position p of a list whose notes differ in every field.
PositionNote(p, instrument) ==
  [pitch |-> 60 + p, instrument |-> instrument, program |-> Some(p + 1),
   velocity |-> Some(10 * p + 7), isDrum |-> Some(p % 2 = 1),
   startTime |-> p, endTime |-> 2 * p + 1]

InstrumentOptions == {Undefined} \cup {Some(i) : i \in 0..(MaxNotes - 1)}

\* Up to MaxNotes notes, every assignment of instruments to them.
NotesByInstrument ==
  {[k \in DOMAIN f |-> PositionNote(k - 1, f[k])] :
     f \in SeqsUpTo(InstrumentOptions, MaxNotes)}

\* One note per instrument of a set of instruments, any subset of 0..MaxInstrument.
NotesOfInstruments ==
  {[k \in DOMAIN a |-> PositionNote(k - 1, Some(a[k]))] :
     a \in {Ascending(S) : S \in SUBSET (0..MaxInstrument)}}

NoteAttributes ==
  [program : {Undefined, Some(0), Some(5)},
   velocity : {Undefined, Some(0), Some(64), Some(127)},
   isDrum : {Undefined, Some(FALSE), Some(TRUE)}]

AttributeNote(p, a) ==
  [pitch |-> 60 + p, instrument |-> Some(0), program |-> a.program,
   velocity |-> a.velocity, isDrum |-> a.isDrum,
   startTime |-> p, endTime |-> p + 2]

\* One or two notes of instrument 0, every choice of their optional fields.
NotesByAttributes ==
  {<<AttributeNote(0, a)>> : a \in NoteAttributes}
    \cup {<<AttributeNote(0, a), AttributeNote(1, b)>> :
            a \in NoteAttributes, b \in NoteAttributes}

TimeOptions == {Undefined, Some(0), Some(1)}

TempoLists ==
  {Undefined, Some(<<>>)}
    \cup {Some(<<[time |-> t, qpm |-> 90]>>) : t \in TimeOptions}
    \cup {Some(<<[time |-> Some(t), qpm |-> 90], [time |-> Some(u), qpm |-> 60]>>) :
            t \in {0, 1}, u \in {0, 1}}

TimeSignatureLists ==
  {Undefined, Some(<<>>)}
    \cup {Some(<<[time |-> t, numerator |-> 3, denominator |-> 8]>>) :
            t \in TimeOptions}
    \cup {Some(<<[time |-> Some(t), numerator |-> 3, denominator |-> 8],
                 [time |-> Some(u), numerator |-> 6, denominator |-> 8]>>) :
            t \in {0, 1}, u \in {0, 1}}

\* Every tempo and time signature list, over few notes.
SequencesByHeader ==
  {[ticksPerQuarter |-> q, tempos |-> t, timeSignatures |-> s, notes |-> n] :
     q \in {Undefined, Some(480)}, t \in TempoLists, s \in TimeSignatureLists,
     n \in {<<>>, <<PositionNote(0, Some(0))>>, <<PositionNote(0, Some(1))>>}}

ExportInputs ==
  {Sequence(n) : n \in NotesByInstrument \cup NotesOfInstruments \cup NotesByAttributes}
    \cup SequencesByHeader

EmptySequence == Sequence(<<>>)

ParsedNotes ==
  {[midi |-> 60, time |-> 0, duration |-> 3, velocity |-> [num |-> 4, den |-> 5]],
   [midi |-> 72, time |-> 1, duration |-> 1, velocity |-> [num |-> 100, den |-> 127]]}

ParsedTrack(i, notes, program, isPercussion) ==
  [id |-> i, notes |-> notes, isPercussion |-> isPercussion,
   channelNumber |-> IF isPercussion THEN DRUM_CHANNEL ELSE DEFAULT_CHANNEL,
   instrumentNumber |-> program]

ParsedHeader(timeSignature) ==
  [bpm |-> 120, PPQ |-> 220, timeSignature |-> timeSignature]

\* Up to MaxTracks tracks, each one empty or holding a single note.
ParsedByTracks ==
  {[header |-> ParsedHeader(Some(<<3, 4>>)),
    tracks |-> [k \in DOMAIN t |-> ParsedTrack(k - 1, t[k], 0, FALSE)]] :
     t \in SeqsUpTo(SeqsUpTo(ParsedNotes, 1), MaxTracks)}

\* One or two tracks of up to MaxTrackNotes notes each, in every order.
ParsedByNotes ==
  {[header |-> ParsedHeader(Some(<<3, 4>>)),
    tracks |-> [k \in DOMAIN t |-> ParsedTrack(k - 1, t[k], 0, FALSE)]] :
     t \in SeqsUpTo(SeqsUpTo(ParsedNotes, MaxTrackNotes), 2)}

\* One track, every choice of its program and percussion flag and of the header.
ParsedByTrackFields ==
  {[header |-> ParsedHeader(s), tracks |-> <<ParsedTrack(0, n, p, d)>>] :
     s \in {Undefined, Some(<<6, 8>>)}, n \in SeqsUpTo(ParsedNotes, MaxTrackNotes),
     p \in {0, 5}, d \in BOOLEAN}

ParsedInputs == ParsedByTracks \cup ParsedByNotes \cup ParsedByTrackFields

EmptyParsed == [header |-> ParsedHeader(Undefined), tracks |-> <<>>]

(***************************************************************************)
(* State machine of the MIDI conversions                                   *)
(***************************************************************************)
NotCalled == [status |-> "none", message |-> "", json |-> Undefined]

NotImported == [status |-> "none", value |-> Undefined]

NoFlatIn == [flatArray |-> <<>>, numberOfSteps |-> 0]

NotReshaped == [status |-> "none", value |-> <<>>]

FlatIdle == flatIn = NoFlatIn /\ reshaped = NotReshaped

RollIdle ==
  /\ rollIn = [notes |-> <<>>, numberOfSteps |-> 0]
  /\ pianoroll = [status |-> "none", value |-> <<>>]
  /\ sequence = [status |-> "none", notes |-> <<>>, totalQuantizedSteps |-> 0]
  /\ FlatIdle

InitMidi ==
  /\ \/ ns \in ExportInputs /\ parsedMidi = EmptyParsed
     \/ ns = EmptySequence /\ parsedMidi \in ParsedInputs
  /\ midiOut = NotCalled
  /\ nsOut = NotImported
  /\ RollIdle
  /\ MeIdle

\* A call sequenceProtoToMidi(ns).
SequenceProtoToMidi ==
  LET r == sequenceProtoToMidi(ns)
  IN /\ ns' = r.ns
     /\ midiOut' = [status |-> r.status, message |-> r.message, json |-> r.json]
     /\ UNCHANGED <<parsedMidi, nsOut, rollVars, flatVars, meVars>>

\* The exported MIDI is serialized and parsed again by the adapter.
Reparse ==
  /\ midiOut.status = "ok"
  /\ parsedMidi' = MidiconvertParse(Get(midiOut.json))
  /\ nsOut' = NotImported
  /\ UNCHANGED <<ns, midiOut, rollVars, flatVars, meVars>>

\* A call midiToSequenceProto(midi) on MIDI data that parses to parsedMidi.
MidiToSequenceProto ==
  /\ nsOut' = [status |-> "ok", value |-> Some(midiToSequenceProto(parsedMidi))]
  /\ UNCHANGED <<ns, midiOut, parsedMidi, rollVars, flatVars, meVars>>

NextMidi == SequenceProtoToMidi \/ Reparse \/ MidiToSequenceProto

SpecMidi == InitMidi /\ [][NextMidi]_vars

(***************************************************************************)
(* Properties of the MIDI conversions                                      *)
(***************************************************************************)
TempoMessage == "NoteSequence must have exactly 1 tempo at time 0"

TimeSignatureMessage == "NoteSequence must have exactly 1 time signature at time 0"

InstrumentMessage == "Instrument list must be continuous and start at 0"

\* The distinct instrument values of a note list, an absent one counted as 0.
InstrumentSet(notes) ==
  {IF notes[i].instrument = Undefined THEN 0 ELSE Get(notes[i].instrument) :
     i \in DOMAIN notes}

Contiguous(S) == S = 0..(Cardinality(S) - 1)

\* The notes of one instrument, in the order of the list.
NotesOf(notes, instrument) ==
  LET Mine(n) == (IF n.instrument = Undefined THEN 0 ELSE Get(n.instrument)) = instrument
  IN SelectSeq(notes, Mine)

OneEntryAtZero(list) == Len(list) = 1 /\ list[1].time = Some(0)

\* C1: once the tempo and time signature checks pass, sequenceProtoToMidi throws
\* the instrument MidiConversionError if and only if the distinct instrument
\* values of the notes are not exactly {0, ..., k-1}; so every set {0..k-1},
\* k >= 11 included, is exported.
C1_RejectsIffNotContiguous ==
  (/\ midiOut.status # "none"
   /\ OneEntryAtZero(Get(ns.tempos))
   /\ OneEntryAtZero(Get(ns.timeSignatures)))
  => /\ midiOut.status = "ok" <=> Contiguous(InstrumentSet(ns.notes))
     /\ midiOut.status # "ok" =>
          midiOut.status = "MidiConversionError" /\ midiOut.message = InstrumentMessage

\* The list a call works with: the given one, or the default when empty or absent.
Effective(list, default) ==
  IF list = Undefined \/ list = Some(<<>>) THEN <<default>> ELSE Get(list)

C2_Holds ==
  LET tempos == Effective(ns.tempos,
                          [time |-> Some(0), qpm |-> DEFAULT_QUARTERS_PER_MINUTE])
      signatures == Effective(ns.timeSignatures,
                              [time |-> Some(0), numerator |-> 4, denominator |-> 4])
      out == midiOut'
  IN /\ ~OneEntryAtZero(tempos) =>
          /\ out.status = "MidiConversionError" /\ out.json = Undefined
          /\ out.message = TempoMessage
     /\ OneEntryAtZero(tempos) /\ ~OneEntryAtZero(signatures) =>
          /\ out.status = "MidiConversionError" /\ out.json = Undefined
          /\ out.message = TimeSignatureMessage
     /\ OneEntryAtZero(tempos) /\ OneEntryAtZero(signatures) =>
          /\ out.message \notin {TempoMessage, TimeSignatureMessage}
          /\ out.status = "ok" =>
               /\ Get(out.json).header.bpm = tempos[1].qpm
               /\ Get(out.json).header.timeSignature =
                    Some(<<signatures[1].numerator, signatures[1].denominator>>)

\* C2: a call first takes one default tempo (at time 0) for an empty or
\* absent tempos list and one 4/4 entry at time 0 for an empty or absent
\* timeSignatures list, then throws MidiConversionError and returns nothing
\* unless tempos is exactly one entry at time 0 and timeSignatures is exactly one
\* entry at time 0; empty lists never fail this check.
C2_HeaderValidation == [][SequenceProtoToMidi => C2_Holds]_vars

\* C2's case: a call on two tempo entries, both at time 0, has thrown.
C2_Witness ==
  /\ midiOut.status = "MidiConversionError"
  /\ midiOut.message = TempoMessage
  /\ Len(Get(ns.tempos)) = 2
  /\ \A i \in 1..2 : Get(ns.tempos)[i].time = Some(0)

\* C3: a call sequenceProtoToMidi(ns), successful or failing, leaves the
\* caller's tempos, timeSignatures and notes as they were.
C3_InputUnchanged == [][SequenceProtoToMidi => ns' = ns]_vars

\* The number of notes in the first n tracks.
RECURSIVE NotesBefore(_, _)
NotesBefore(tracks, n) ==
  IF n = 0 THEN 0 ELSE NotesBefore(tracks, n - 1) + Len(tracks[n].notes)

NonEmptyTracks(tracks) == {t \in DOMAIN tracks : Len(tracks[t].notes) > 0}

\* C4: midiToSequenceProto numbers instruments from 0 in every call: the j-th
\* (0-based) track with at least one note gets number j, carried by each of its
\* notes; a track without notes takes no number; the instrument values of the
\* result are exactly {0..k-1} for k non-empty tracks.
C4_InstrumentNumbering ==
  nsOut.status = "ok" =>
    LET tracks == parsedMidi.tracks
        notes == Get(nsOut.value).notes
        Rank(t) == Cardinality({u \in NonEmptyTracks(tracks) : u < t})
    IN /\ Len(notes) = NotesBefore(tracks, Len(tracks))
       /\ \A t \in DOMAIN tracks : \A i \in DOMAIN tracks[t].notes :
            LET n == notes[NotesBefore(tracks, t - 1) + i]
            IN /\ n.instrument = Rank(t)
               /\ n.pitch = tracks[t].notes[i].midi
               /\ n.startTime = tracks[t].notes[i].time
       /\ {notes[i].instrument : i \in DOMAIN notes}
            = 0..(Cardinality(NonEmptyTracks(tracks)) - 1)

\* C4's case: an import of three tracks, the middle one empty, so that the
\* third track's note carries instrument 1.
C4_Witness ==
  /\ nsOut.status = "ok"
  /\ Len(parsedMidi.tracks) = 3
  /\ Len(parsedMidi.tracks[1].notes) = 1
  /\ Len(parsedMidi.tracks[2].notes) = 0
  /\ Len(parsedMidi.tracks[3].notes) = 1
  /\ Get(nsOut.value).notes[2].instrument = 1

\* Whether the fields of a sequence meet the preconditions of the round trip.
RoundTripInput(seq) ==
  /\ seq.tempos # Undefined /\ OneEntryAtZero(Get(seq.tempos))
  /\ seq.timeSignatures # Undefined /\ OneEntryAtZero(Get(seq.timeSignatures))
  /\ Contiguous(InstrumentSet(seq.notes))
  /\ \A i \in DOMAIN seq.notes :
       seq.notes[i].velocity # Undefined /\ Get(seq.notes[i].velocity) \in 0..127

\* The notes of a sequence instrument by instrument, as an export lays them out.
RECURSIVE ByInstrument(_, _, _)
ByInstrument(notes, i, k) ==
  IF i >= k THEN <<>> ELSE NotesOf(notes, i) \o ByInstrument(notes, i + 1, k)

Abs(x) == IF x < 0 THEN -x ELSE x

ProgramOf(note) ==
  IF note.program = Undefined THEN DEFAULT_PROGRAM ELSE Get(note.program)

\* C5: exporting a sequence with one tempo and one time signature at time 0,
\* instruments {0..k-1} and velocities in 0..127, then importing the result,
\* gives back every note's pitch and program and the number of instruments, and
\* for every note a velocity in 0..127 that is at most one step (1/128) off.
C5_RoundTrip ==
  (/\ RoundTripInput(ns)
   /\ midiOut.status = "ok"
   /\ parsedMidi = MidiconvertParse(Get(midiOut.json))
   /\ nsOut.status = "ok") =>
         LET k == Cardinality(InstrumentSet(ns.notes))
             before == ByInstrument(ns.notes, 0, k)
             after == Get(nsOut.value).notes
         IN /\ Len(after) = Len(before)
            /\ Cardinality({after[i].instrument : i \in DOMAIN after}) = k
            /\ \A i \in DOMAIN after :
                 /\ after[i].pitch = before[i].pitch
                 /\ after[i].program = ProgramOf(before[i])
                 /\ after[i].velocity \in 0..127
                 /\ Abs(after[i].velocity - Get(before[i].velocity)) <= 1

\* C6: a sequence that passes validation is exported as one track per distinct
\* instrument, track i (0-based) holding exactly the notes of instrument i in
\* the order of the input, with isPercussion, channelNumber and
\* instrumentNumber taken from the first of these notes.
C6_Grouping ==
  midiOut.status = "ok" =>
    LET tracks == Get(midiOut.json).tracks
    IN /\ Len(tracks) = Cardinality(InstrumentSet(ns.notes))
       /\ NotesBefore(tracks, Len(tracks)) = Len(ns.notes)
       /\ \A t \in DOMAIN tracks :
            LET mine == NotesOf(ns.notes, t - 1)
            IN /\ tracks[t].id = t - 1
               /\ Len(tracks[t].notes) = Len(mine)
               /\ \A i \in DOMAIN mine :
                    /\ tracks[t].notes[i].midi = mine[i].pitch
                    /\ tracks[t].notes[i].time = mine[i].startTime
                    /\ tracks[t].notes[i].duration = mine[i].endTime - mine[i].startTime
               /\ tracks[t].isPercussion = (mine[1].isDrum = Some(TRUE))
               /\ tracks[t].channelNumber =
                    (IF mine[1].isDrum = Some(TRUE) THEN DRUM_CHANNEL ELSE DEFAULT_CHANNEL)
               /\ tracks[t].instrumentNumber = ProgramOf(mine[1])

\* C6's case: an export of two notes of instrument 0 that disagree on isDrum and
\* program; the track follows the first.
C6_Witness ==
  /\ midiOut.status = "ok"
  /\ Len(ns.notes) = 2
  /\ ns.notes[1].isDrum = Some(TRUE) /\ ns.notes[2].isDrum = Some(FALSE)
  /\ ns.notes[1].program = Some(5) /\ ns.notes[2].program = Some(0)
  /\ Len(Get(midiOut.json).tracks) = 1
  /\ Get(midiOut.json).tracks[1].isPercussion

\* C6's second case: three notes of instruments 1, 0, 1 exported as two tracks.
C6_WitnessOrder ==
  /\ midiOut.status = "ok"
  /\ Len(ns.notes) = 3
  /\ ns.notes[1].instrument = Some(1)
  /\ ns.notes[2].instrument = Some(0)
  /\ ns.notes[3].instrument = Some(1)
  /\ Len(Get(midiOut.json).tracks[2].notes) = 2

\* The end times of all notes of all tracks.
EndTimes(tracks) ==
  UNION {{tracks[t].notes[i].time + tracks[t].notes[i].duration :
            i \in DOMAIN tracks[t].notes} : t \in DOMAIN tracks}

\* C7: the totalTime midiToSequenceProto returns is the largest end time
\* (time + duration) of any note of any track, and 0 without notes.
C7_TotalTime ==
  nsOut.status = "ok" =>
    LET ends == EndTimes(parsedMidi.tracks)
        total == Get(nsOut.value).totalTime
    IN IF ends = {} THEN total = 0
       ELSE total \in ends /\ \A e \in ends : e <= total

\* C7's case: an import whose last note ends before an earlier one.
C7_Witness ==
  /\ nsOut.status = "ok"
  /\ Len(Get(nsOut.value).notes) >= 2
  /\ LET notes == Get(nsOut.value).notes
     IN notes[Len(notes)].endTime < Get(nsOut.value).totalTime

(***************************************************************************)
(* Inputs and state machine of the pianoroll conversions                   *)
(***************************************************************************)
MaxSteps == 3

MaxRollNotes == 2

RollNoteOf(pitch, voice, start, end) ==
  [pitch |-> pitch, instrument |-> voice,
   quantizedStartStep |-> start, quantizedEndStep |-> end]

Spans == {u \in (0..MaxSteps) \X (0..MaxSteps) : u[1] <= u[2]}

\* Notes of one pitch and voice over every span of steps: they overlap.
SpanRollNotes == {RollNoteOf(36, 0, u[1], u[2]) : u \in Spans}

\* Notes of several pitches and voices over two spans.
CellRollNotes ==
  {RollNoteOf(c[1], c[2], u[1], u[2]) :
     c \in {<<36, 0>>, <<36, 3>>, <<81, 3>>}, u \in {<<0, MaxSteps>>, <<1, 2>>}}

\* Notes with a voice, a pitch or a step out of range, and two notes in range.
OtherRollNotes ==
  {RollNoteOf(36, -1, 0, 1), RollNoteOf(36, 4, 0, 1), RollNoteOf(82, 4, 0, 1),
   RollNoteOf(35, 0, 0, 1), RollNoteOf(82, 0, 0, 1),
   RollNoteOf(36, 0, MaxSteps, MaxSteps + 1),
   RollNoteOf(36, 0, 0, MaxSteps), RollNoteOf(81, 3, 1, 2)}

RollInputs ==
  [notes : SeqsUpTo(SpanRollNotes, MaxRollNotes)
             \cup SeqsUpTo(CellRollNotes, MaxRollNotes)
             \cup SeqsUpTo(OtherRollNotes, MaxRollNotes),
   numberOfSteps : {MaxSteps}]

\* The tensor of the given shape whose cells <<step, pitch, voice>> in cells are 1.
Tensor(numberOfSteps, cells) ==
  [s \in 1..numberOfSteps |-> [p \in 1..NUM_PITCHES |-> [v \in 1..4 |->
     IF <<s - 1, p - 1, v - 1>> \in cells THEN 1 ELSE 0]]]

GivenCells ==
  {<<0, 0, 0>>, <<0, 0, 3>>, <<0, 45, 0>>, <<1, 10, 2>>, <<MaxSteps - 1, 45, 3>>}

GivenPianorolls ==
  {Tensor(MaxSteps, cells) : cells \in SUBSET GivenCells}

NoRollIn == [notes |-> <<>>, numberOfSteps |-> 0]

NoPianoroll == [status |-> "none", value |-> <<>>]

NoSequence == [status |-> "none", notes |-> <<>>, totalQuantizedSteps |-> 0]

MidiIdle ==
  /\ ns = EmptySequence
  /\ midiOut = NotCalled
  /\ parsedMidi = EmptyParsed
  /\ nsOut = NotImported

\* A buffer of the given length; element i holds i % m, so that neighbouring
\* indices, pitches and steps hold different values.
FlatArray(length, m) == [k \in 1..length |-> (k - 1) % m]

\* Buffers of exactly numberOfSteps * 46 * 4 elements, shorter by one element,
\* by a pitch row, by more than a row or by a whole step, and longer ones.
FlatInputs ==
  {[flatArray |-> FlatArray(n * NUM_PITCHES * 4 + d, m), numberOfSteps |-> n] :
     n \in {1, MaxSteps}, d \in {0 - NUM_PITCHES * 4, -5, -4, -1, 0, 1, 4},
     m \in {3, 7}}

InitRoll ==
  /\ \/ rollIn \in RollInputs /\ pianoroll = NoPianoroll /\ flatIn = NoFlatIn
     \/ /\ rollIn = NoRollIn
        /\ pianoroll \in [status : {"given"}, value : GivenPianorolls]
        /\ flatIn = NoFlatIn
     \/ rollIn = NoRollIn /\ pianoroll = NoPianoroll /\ flatIn \in FlatInputs
  /\ sequence = NoSequence
  /\ reshaped = NotReshaped
  /\ MidiIdle
  /\ MeIdle

\* A call sequenceToPianoroll(rollIn.notes, rollIn.numberOfSteps).
SequenceToPianoroll ==
  /\ pianoroll.status = "none"
  /\ rollIn # NoRollIn
  /\ pianoroll' = sequenceToPianoroll(rollIn, rollIn.numberOfSteps)
  /\ UNCHANGED <<rollIn, sequence, midiVars, flatVars, meVars>>

\* A call pianorollToSequence on a given pianoroll or on a returned one.
PianorollToSequence ==
  /\ pianoroll.status \in {"given", "ok"}
  /\ sequence' = pianorollToSequence(pianoroll.value)
  /\ UNCHANGED <<rollIn, pianoroll, midiVars, flatVars, meVars>>

\* A call flatArrayToPianoroll(flatIn.flatArray, flatIn.numberOfSteps).
FlatArrayToPianoroll ==
  /\ flatIn # NoFlatIn
  /\ reshaped' = flatArrayToPianoroll(flatIn.flatArray, flatIn.numberOfSteps)
  /\ UNCHANGED <<flatIn, rollVars, midiVars, meVars>>

NextRoll == SequenceToPianoroll \/ PianorollToSequence \/ FlatArrayToPianoroll

SpecRoll == InitRoll /\ [][NextRoll]_vars

(***************************************************************************)
(* Properties of the pianoroll conversions                                 *)
(***************************************************************************)
Called == pianoroll.status \notin {"none", "given"}

\* A note within the ranges sequenceToPianoroll expects of its caller.
InRange(note, numberOfSteps) ==
  /\ note.pitch >= 36 /\ note.pitch < 82
  /\ 0 <= note.quantizedStartStep
  /\ note.quantizedStartStep <= note.quantizedEndStep
  /\ note.quantizedEndStep <= numberOfSteps

Sounds(note, s, p, v) ==
  /\ note.pitch = p + 36 /\ note.instrument = v
  /\ note.quantizedStartStep <= s /\ s < note.quantizedEndStep

\* C8: for notes with pitch in [36, 82), instrument in [0, 3] and
\* 0 <= quantizedStartStep <= quantizedEndStep <= numSteps, sequenceToPianoroll
\* returns a [numSteps][46][4] tensor whose cell [s][p][v] is 1 exactly when a
\* note has pitch p + 36, instrument v and start <= s < end, and is 0 otherwise.
C8_Pianoroll ==
  (/\ Called
   /\ \A i \in DOMAIN rollIn.notes :
        /\ InRange(rollIn.notes[i], rollIn.numberOfSteps)
        /\ rollIn.notes[i].instrument \in 0..3) =>
    /\ pianoroll.status = "ok"
    /\ Len(pianoroll.value) = rollIn.numberOfSteps
    /\ \A s \in 0..(rollIn.numberOfSteps - 1) :
         /\ Len(pianoroll.value[s + 1]) = 46
         /\ \A p \in 0..45 :
              /\ Len(pianoroll.value[s + 1][p + 1]) = 4
              /\ \A v \in 0..3 :
                   pianoroll.value[s + 1][p + 1][v + 1] =
                     (IF \E i \in DOMAIN rollIn.notes : Sounds(rollIn.notes[i], s, p, v)
                      THEN 1 ELSE 0)

\* C8's case: a pianoroll returned for two overlapping notes of one pitch and
\* voice, the first three steps long.
C8_Witness ==
  /\ pianoroll.status = "ok"
  /\ rollIn.notes = <<RollNoteOf(36, 0, 0, 3), RollNoteOf(36, 0, 1, 2)>>
  /\ \A s \in 1..3 : pianoroll.value[s][1][1] = 1

\* C9: when a note has an instrument outside [0, 3], the whole call fails and
\* returns no pianoroll, wherever the note stands; after notes that are in
\* range the failure is the invalid-voice error.
C9_InvalidVoice ==
  LET notes == rollIn.notes
      bad == {i \in DOMAIN notes : notes[i].instrument \notin 0..3}
  IN (Called /\ bad # {}) =>
       /\ pianoroll.status \in {"Error", "TypeError"}
       /\ pianoroll.value = <<>>
       /\ (\A j \in DOMAIN notes :
             (\A i \in bad : j < i) => InRange(notes[j], rollIn.numberOfSteps))
            => pianoroll.status = "Error"

\* C9's case: a call has failed on a note of instrument 4 that follows a note
\* in range.
C9_Witness ==
  /\ pianoroll.status = "Error"
  /\ Len(rollIn.notes) = 2
  /\ rollIn.notes[1] = RollNoteOf(36, 0, 0, 3)
  /\ rollIn.notes[2].instrument = 4

\* The cells of a tensor that hold 1.
ActiveCells(roll) ==
  {c \in (0..(Len(roll) - 1)) \X (0..45) \X (0..3) :
     roll[c[1] + 1][c[2] + 1][c[3] + 1] = 1}

\* C10: for every [steps][46][4] tensor over {0, 1}, one without an active cell
\* included, pianorollToSequence returns a sequence whose notes are, one to
\* one, the cells equal to 1: cell [s][p][v] gives one note of pitch p + 36,
\* instrument v, from step s to step s + 1.
C10_OneNotePerActiveCell ==
  (pianoroll.status \in {"given", "ok"} /\ sequence.status # "none") =>
    /\ sequence.status = "ok"
    /\ Len(sequence.notes) = Cardinality(ActiveCells(pianoroll.value))
    /\ \A c \in ActiveCells(pianoroll.value) :
         \E i \in DOMAIN sequence.notes :
           sequence.notes[i] = RollNoteOf(c[2] + 36, c[3], c[1], c[1] + 1)

\* The tensor flatArrayToPianoroll is to return: [numberOfSteps][46][4], cell
\* [s][p][v] holding the buffer's element s * 184 + p * 4 + v.
Reshaped(buffer, numberOfSteps, value) ==
  /\ Len(value) = numberOfSteps
  /\ \A s \in 0..(numberOfSteps - 1) :
       /\ Len(value[s + 1]) = NUM_PITCHES
       /\ \A p \in 0..(NUM_PITCHES - 1) :
            /\ Len(value[s + 1][p + 1]) = 4
            /\ \A v \in 0..3 :
                 value[s + 1][p + 1][v + 1] =
                   buffer[s * NUM_PITCHES * 4 + p * 4 + v + 1]

\* C11: on a buffer of exactly N * 46 * 4 elements flatArrayToPianoroll returns
\* the tensor with result[s][p][v] = buffer[s * 184 + p * 4 + v]; on a shorter
\* buffer the call fails and returns no tensor; on a longer buffer it returns
\* the same tensor, the elements from index N * 184 on being ignored.
C11_Reshape ==
  LET buffer == flatIn.flatArray
      required == flatIn.numberOfSteps * NUM_PITCHES * 4
  IN reshaped.status # "none" =>
       IF Len(buffer) < required
       THEN reshaped.status # "ok"
       ELSE /\ reshaped.status = "ok"
            /\ Reshaped(buffer, flatIn.numberOfSteps, reshaped.value)

\* The part of C11 that the code meets: buffers of the required length or more.
ReshapeOfFullBuffer ==
  (reshaped.status # "none"
     /\ Len(flatIn.flatArray) >= flatIn.numberOfSteps * NUM_PITCHES * 4) =>
    /\ reshaped.status = "ok"
    /\ Reshaped(flatIn.flatArray, flatIn.numberOfSteps, reshaped.value)

\* What the code returns for a short buffer: a ragged tensor, the rows past
\* the buffer's end holding fewer than four elements.
ReshapeOfShortBuffer ==
  (reshaped.status # "none"
     /\ Len(flatIn.flatArray) < flatIn.numberOfSteps * NUM_PITCHES * 4) =>
    /\ reshaped.status = "ok"
    /\ \E s \in DOMAIN reshaped.value : \E p \in 1..NUM_PITCHES :
         Len(reshaped.value[s][p]) < 4

\* C12: for every binary pianoroll with at least one active cell, the
\* totalQuantizedSteps of the sequence pianorollToSequence returns, read from
\* the last note pushed, is the largest quantizedEndStep of all the notes,
\* which is 1 + the largest step index that has an active cell.
C12_TotalQuantizedSteps ==
  LET cells == ActiveCells(pianoroll.value)
  IN (pianoroll.status \in {"given", "ok"} /\ sequence.status # "none"
        /\ cells # {}) =>
       /\ sequence.status = "ok"
       /\ \E i \in DOMAIN sequence.notes :
            sequence.notes[i].quantizedEndStep = sequence.totalQuantizedSteps
       /\ \A i \in DOMAIN sequence.notes :
            sequence.notes[i].quantizedEndStep <= sequence.totalQuantizedSteps
       /\ \E c \in cells : sequence.totalQuantizedSteps = 1 + c[1]
       /\ \A c \in cells : 1 + c[1] <= sequence.totalQuantizedSteps

\* C12's case: a sequence returned for a pianoroll whose active cells lie in
\* several steps, the last step's cell of a lower pitch than an earlier one.
C12_Witness ==
  /\ sequence.status = "ok"
  /\ Len(sequence.notes) >= 2
  /\ sequence.notes[1].quantizedEndStep < sequence.totalQuantizedSteps
  /\ \E i \in DOMAIN sequence.notes :
       /\ sequence.notes[i].pitch > sequence.notes[Len(sequence.notes)].pitch
       /\ sequence.notes[i].quantizedEndStep < sequence.totalQuantizedSteps

(***************************************************************************)
(* State machine of a MidiMe instance                                      *)
(*                                                                         *)
(* JavaScript runs each call to completion or to its next await; between   *)
(* two steps of a suspended call any other call on the instance may run.   *)
(* At most one train call and one sample, decode or encode call are        *)
(* suspended at a time.                                                    *)
(***************************************************************************)
MaxEpochs == 2

Configs == {[epochs |-> Undefined]} \cup {[epochs |-> Some(n)] : n \in -1..MaxEpochs}

InitMidiMe ==
  /\ midiMe \in {MidiMe(config) : config \in Configs}
  /\ trainCall = NoTrainCall
  /\ awaiting = "none"
  /\ lastUse = NoUse
  /\ MidiIdle
  /\ RollIdle

\* A call dispose().
Dispose ==
  /\ midiMe' = dispose(midiMe)
  /\ UNCHANGED <<trainCall, awaiting, lastUse, midiVars, rollVars, flatVars>>

\* A call initialize().
Initialize ==
  /\ midiMe' = initialize(midiMe)
  /\ UNCHANGED <<trainCall, awaiting, lastUse, midiVars, rollVars, flatVars>>

\* A call predict(z): this.vae.predict(z), whatever initialized holds.
Predict ==
  /\ lastUse' = Use(midiMe, "predict", "vae")
  /\ UNCHANGED <<midiMe, trainCall, awaiting, midiVars, rollVars, flatVars>>

\* sample, decode, encode: if (!this.initialized) await this.initialize(); then
\* a predict on the model. With initialized true the call runs through; else
\* initialize() runs and the call is suspended at the await.
GuardedCall(call, model) ==
  /\ awaiting = "none"
  /\ IF midiMe.initialized
     THEN /\ lastUse' = Use(midiMe, call, model)
          /\ UNCHANGED <<midiMe, awaiting>>
     ELSE /\ midiMe' = initialize(midiMe)
          /\ awaiting' = call
          /\ UNCHANGED lastUse
  /\ UNCHANGED <<trainCall, midiVars, rollVars, flatVars>>

Sample == GuardedCall("sample", "decoder")

Decode == GuardedCall("decode", "decoder")

Encode == GuardedCall("encode", "encoder")

\* The model the suspended call uses when it resumes.
ModelOf(call) == IF call = "encode" THEN "encoder" ELSE "decoder"

\* The suspended sample, decode or encode call resumes after its await.
Resume ==
  /\ awaiting # "none"
  /\ lastUse' = Use(midiMe, awaiting, ModelOf(awaiting))
  /\ awaiting' = "none"
  /\ UNCHANGED <<midiMe, trainCall, midiVars, rollVars, flatVars>>

\* A call train(xTrain): trained = false, then the loop's first
\* await tf.nextFrame(); with no epoch to run, trained = true at once.
Train ==
  /\ trainCall.pc \in {"none", "resolved", "rejected"}
  /\ IF 0 < midiMe.epochs
     THEN /\ midiMe' = [midiMe EXCEPT !.trained = FALSE]
          /\ trainCall' = [pc |-> "168", e |-> 0]
     ELSE /\ midiMe' = [midiMe EXCEPT !.trained = TRUE]
          /\ trainCall' = [pc |-> "resolved", e |-> 0]
  /\ UNCHANGED <<awaiting, lastUse, midiVars, rollVars, flatVars>>

\* train resumes from the await of line 168: optimizer.minimize runs its
\* function, which calls this.encoder.predict and then this.vae.predict. A
\* predict that throws rejects the call; else the call awaits minimize's result.
TrainMinimize ==
  /\ trainCall.pc = "168"
  /\ LET encoderUse == Use(midiMe, "train", "encoder")
         vaeUse == Use(midiMe, "train", "vae")
     IN IF encoderUse.state # "live"
        THEN lastUse' = encoderUse /\ trainCall' = [trainCall EXCEPT !.pc = "rejected"]
        ELSE IF vaeUse.state # "live"
        THEN lastUse' = vaeUse /\ trainCall' = [trainCall EXCEPT !.pc = "rejected"]
        ELSE lastUse' = vaeUse /\ trainCall' = [trainCall EXCEPT !.pc = "170"]
  /\ UNCHANGED <<midiMe, awaiting, midiVars, rollVars, flatVars>>

\* train resumes from the await of line 170 and reaches the second
\* await tf.nextFrame().
TrainNextFrame ==
  /\ trainCall.pc = "170"
  /\ trainCall' = [trainCall EXCEPT !.pc = "188"]
  /\ UNCHANGED <<midiMe, awaiting, lastUse, midiVars, rollVars, flatVars>>

\* train resumes from the await of line 188: e++, then the next epoch's first
\* await or, after the last epoch, trained = true.
TrainEpochEnd ==
  /\ trainCall.pc = "188"
  /\ IF trainCall.e + 1 < midiMe.epochs
     THEN /\ trainCall' = [pc |-> "168", e |-> trainCall.e + 1]
          /\ UNCHANGED midiMe
     ELSE /\ trainCall' = [pc |-> "resolved", e |-> trainCall.e + 1]
          /\ midiMe' = [midiMe EXCEPT !.trained = TRUE]
  /\ UNCHANGED <<awaiting, lastUse, midiVars, rollVars, flatVars>>

NextMidiMe ==
  \/ Dispose \/ Initialize \/ Predict \/ Sample \/ Decode \/ Encode \/ Resume
  \/ Train \/ TrainMinimize \/ TrainNextFrame \/ TrainEpochEnd

SpecMidiMe == InitMidiMe /\ [][NextMidiMe]_vars

(***************************************************************************)
(* Properties of a MidiMe instance                                         *)
(***************************************************************************)
Models == {"encoder", "decoder", "vae"}

\* initialized is true exactly when the three models exist and are not disposed.
InitializedIffModelsLive ==
  midiMe.initialized <=> (\A m \in Models : midiMe[m] = "live")

\* C13: after any calls of initialize, dispose, sample, encode, decode,
\* predict and train, calls made while a train call is suspended at an await
\* included, initialized is true exactly when the encoder, decoder and vae
\* models exist and have not been disposed, and no call uses one of these
\* models while it is missing or disposed.
C13_ModelsLiveWhenUsed ==
  /\ InitializedIffModelsLive
  /\ lastUse.state \notin {"undefined", "disposed"}

\* A train call that was suspended while the models were live has used a
\* disposed model: dispose() ran at one of its awaits.
TrainUsedDisposedModel ==
  /\ lastUse = [call |-> "train", model |-> "encoder", state |-> "disposed"]
  /\ trainCall.pc = "rejected"

\* A sample call that found initialized false, and so ran initialize(), has
\* used the decoder after a dispose() that ran at its await.
SampleUsedDisposedModel ==
  lastUse = [call |-> "sample", model |-> "decoder", state |-> "disposed"]

====
